---- MODULE Spec2Model ----
(***************************************************************************)
(* Model of the monitoring wrapper of mona_openai/mona_openai.py           *)
(* (monitor_with_logger: MonitoredOpenAI._inner_create, create, acreate)   *)
(* and of the sync/async bridge of mona_openai/util/async_util.py          *)
(* (run_in_an_event_loop, call_non_blocking_sync_or_async), and of the     *)
(* REST monitoring client (get_rest_monitor_with_logger: RestClient).      *)
(*                                                                         *)
(* Python's Optional values are modelled as sequences: <<>> is None and    *)
(* <<v>> is the value v. Keyword-argument names are sequences of           *)
(* characters, so that str.startswith is computed and not assumed.         *)
(***************************************************************************)
EXTENDS Integers, Sequences, FiniteSets, TLC

VARIABLES
    wrapper,      \* what the constructor handed back: nothing yet, a class, or a configuration error
    started,      \* logger.start_monitoring has been called
    rest,         \* the request of the REST client: the locals of _inner_log_request
    workload,     \* what the callers do: one call, two concurrent calls, or a REST request
    specs,        \* the construction-time specs mapping (sampling_ratio, avoid_monitoring_exceptions)
    nest_applied, \* nest_asyncio.apply() has patched asyncio in this process
    now,          \* the value time.time() last returned
    thread,       \* the call whose code is executing on the thread (0: none)
    call,         \* per call: the locals of create/acreate/_inner_create and what the caller saw
    logged        \* the calls made to logger.log / logger.alog, in order

vars == <<wrapper, started, rest, workload, specs, nest_applied, now, thread, call, logged>>

----------------------------------------------------------------------------
\* Bounds of the model.

\* time.time() values range over 0..MaxTime
MaxTime == 2
\* the callbacks of a REST request are invoked at most MaxInvocations times
MaxInvocations == 2
\* the underlying target streams between 1 and MaxChunks chunks
MaxChunks == 2
\* The wrapped calls the model follows.
Calls == {1, 2}

None == <<>>
Some(v) == <<v>>

----------------------------------------------------------------------------
\* Keyword-argument names.

MONA_ARGS_PREFIX == <<"M", "O", "N", "A", "_">>
CONTEXT_ID_ARG_NAME ==
    MONA_ARGS_PREFIX \o <<"c", "o", "n", "t", "e", "x", "t", "_", "i", "d">>
EXPORT_TIMESTAMP_ARG_NAME ==
    MONA_ARGS_PREFIX
        \o <<"e", "x", "p", "o", "r", "t", "_", "t", "i", "m", "e", "s", "t", "a", "m", "p">>
ADDITIONAL_DATA_ARG_NAME ==
    MONA_ARGS_PREFIX
        \o <<"a", "d", "d", "i", "t", "i", "o", "n", "a", "l", "_", "d", "a", "t", "a">>

\* names a caller passes that are not the wrapper's own
PROMPT_ARG == <<"p", "r", "o", "m", "p", "t">>
STREAM_ARG == <<"s", "t", "r", "e", "a", "m">>
\* a name shorter than the prefix, and one that differs from it in case
MONA_ARG == <<"M", "O", "N", "A">>
LOWER_MONA_ARG == <<"m", "o", "n", "a", "_", "x">>
\* a name with the reserved prefix that the wrapper gives no meaning to
MONA_OTHER_ARG == MONA_ARGS_PREFIX \o <<"x">>

\* str.startswith
startswith(x, prefix) ==
    /\ Len(x) >= Len(prefix)
    /\ SubSeq(x, 1, Len(prefix)) = prefix

\* dict.get(key, default)
get(d, key, default) == IF key \in DOMAIN d THEN d[key] ELSE default

EMPTY_DICT == <<>>

\* bool(x) of a mapping: an empty mapping is falsy
truthy(d) == DOMAIN d # {}

----------------------------------------------------------------------------
\* The inputs the model draws from.

\* The keyword arguments callers pass to create / acreate.
KwargsChoices ==
    { (PROMPT_ARG :> "hello"),
      (PROMPT_ARG :> "hello") @@ (STREAM_ARG :> TRUE),
      (PROMPT_ARG :> "bye") @@ (STREAM_ARG :> FALSE) @@ (MONA_ARG :> "m")
          @@ (CONTEXT_ID_ARG_NAME :> "ctx1")
          @@ (ADDITIONAL_DATA_ARG_NAME :> [customer_id |-> "A531251"]),
      (PROMPT_ARG :> "hello") @@ (LOWER_MONA_ARG :> "x")
          @@ (EXPORT_TIMESTAMP_ARG_NAME :> 7) @@ (MONA_OTHER_ARG :> "y")
          @@ (ADDITIONAL_DATA_ARG_NAME :> EMPTY_DICT),
      (PROMPT_ARG :> "bye") @@ (STREAM_ARG :> TRUE)
          @@ (CONTEXT_ID_ARG_NAME :> "ctx2")
          @@ (ADDITIONAL_DATA_ARG_NAME :> [customer_id |-> "B7"]) }

\* The responses of the underlying target (OpenAI responses carry an "id").
Responses ==
    { [id |-> "r1", choices |-> <<"hi">>],
      [id |-> "r2", choices |-> <<"yo">>] }

\* The exceptions the underlying target raises. All are subclasses of
\* Exception; NotImplementedError is a subclass of RuntimeError.
TargetExceptions ==
    { [kind |-> "RateLimitError", msg |-> "slow down"],
      [kind |-> "RuntimeError", msg |-> "boom"],
      [kind |-> "NotImplementedError", msg |-> "nope"] }

\* The exception a failing logger raises.
LoggerException == [kind |-> "LoggerError", msg |-> "sink down"]

\* isinstance(e, RuntimeError)
isRuntimeError(e) == e.kind \in {"RuntimeError", "NotImplementedError"}

\* The chunk sequences the underlying target streams: the id of the
\* response and the delta texts of choice 0.
Deltas == {"a", "b"}
ChunkSeqs ==
    UNION { [1..n -> [id : {"r1"}, delta : Deltas]] : n \in 1..MaxChunks }

\* Sampling ratios, in halves: 0, 1/2 and 1. random() draws 0 or 1/2.
SamplingRatios == {0, 1, 2}
\* Ratios outside [0, 1], in halves: -1/2 and 3/2.
InvalidSamplingRatios == {-1, 3}
RandomDraws == {0, 1}

\* The workloads: one caller that makes one call of any kind, two callers
\* whose calls overlap, with fewer kinds of arguments and outcomes, or one
\* request logged through the REST client.
Workloads == {"one_call", "two_calls", "rest"}

\* The inputs drawn from under the workload w.
KwargsOf(w) ==
    IF w = "one_call"
    THEN KwargsChoices
    ELSE {k \in KwargsChoices : CONTEXT_ID_ARG_NAME \in DOMAIN k}
ExceptionsOf(w) ==
    IF w = "one_call"
    THEN TargetExceptions
    ELSE {e \in TargetExceptions : e.kind = "RateLimitError"}
ChunkSeqsOf(w) ==
    IF w = "one_call" THEN ChunkSeqs ELSE {s \in ChunkSeqs : Len(s) = 1}
SpecsOf(w) ==
    [sampling_ratio : IF w = "two_calls"
                      THEN {0, 2}
                      ELSE SamplingRatios \cup InvalidSamplingRatios,
     avoid_monitoring_exceptions : IF w = "one_call" THEN BOOLEAN ELSE {FALSE}]
CallsOf(w) ==
    IF w = "one_call" THEN {1} ELSE IF w = "two_calls" THEN Calls ELSE {}

\* What a caller of the REST client logs: the request, the additional data
\* of log_request and of a callback, the context id and export timestamp.
RequestDicts == {PROMPT_ARG :> "hello"}
RequestData == {EMPTY_DICT, [customer_id |-> "A531251"]}
CallbackData == {EMPTY_DICT, [customer_id |-> "B7", attempt |-> "second"]}
RequestIds == {[context_id |-> None, export_timestamp |-> None],
               [context_id |-> Some("ctx1"), export_timestamp |-> Some(7)]}
\* The entry of logged.call of the records of the REST request.
RestRequest == 0

\* The execution contexts a caller can call create from.
Contexts == {"no_loop", "idle_loop", "running_loop"}

----------------------------------------------------------------------------
\* What a coroutine or an entry point hands back.

Return(v) == [type |-> "return", value |-> Some(v), exc |-> None]
Raise(e) == [type |-> "raise", value |-> None, exc |-> Some(e)]
\* the ResponseGatheringIterator wrapping the target's chunk sequence
Aggregator == [type |-> "stream", value |-> None, exc |-> None]

\* keyword arguments without the names that start with MONA_
without_mona_args(kwargs) ==
    [x \in {k \in DOMAIN kwargs : ~startswith(k, MONA_ARGS_PREFIX)} |-> kwargs[x]]

\* The endpoint wrapping's analysis of a request and its response.
get_full_analysis(request_input, response) ==
    [of_input |-> request_input, of_response |-> response]

\* The endpoint wrapping's cleaner of a message.
get_clean_message(message) == message

\* get_usage over the prompt texts of the request and the response texts.
get_usage(kwargs, final_response) ==
    [prompt_texts |-> get(kwargs, PROMPT_ARG, ""),
     response_texts |-> final_response.choices]

\* _get_logging_message that measures the stream start latency of a call
\* with no stream start time up to the time of the message.
get_logging_message_stream_latency_always(request_input, start_time, is_exception, is_async, stream_start_time, response, additional_data, t) ==
    LET message ==
            ("input" :> request_input)
            @@ ("latency" :> t - start_time)
            @@ ("stream_start_latency" :>
                    IF stream_start_time # None
                    THEN Some(stream_start_time[1] - start_time)
                    ELSE Some(t - start_time))
            @@ ("is_exception" :> is_exception)
            @@ ("api_name" :> "Completion")
            @@ ("is_async" :> is_async)
        with_data ==
            IF truthy(additional_data)
            THEN message @@ ("additional_data" :> additional_data)
            ELSE message
        with_response ==
            IF response # None /\ truthy(response[1])
            THEN with_data
                 @@ ("response" :> response[1])
                 @@ ("analysis" :> get_full_analysis(request_input, response[1]))
            ELSE with_data
    IN get_clean_message(with_response)

\* The module-level _get_logging_message; t is what time.time() returns.
get_logging_message(request_input, start_time, is_exception, is_async, stream_start_time, response, additional_data, t) ==
    LET message ==
            ("input" :> request_input)
            @@ ("latency" :> t - start_time)
            @@ ("stream_start_latency" :>
                    IF stream_start_time # None
                    THEN Some(stream_start_time[1] - start_time)
                    ELSE None)
            @@ ("is_exception" :> is_exception)
            @@ ("api_name" :> "Completion")
            @@ ("is_async" :> is_async)
        with_data ==
            IF truthy(additional_data)
            THEN message @@ ("additional_data" :> additional_data)
            ELSE message
        with_response ==
            IF response # None /\ truthy(response[1])
            THEN with_data
                 @@ ("response" :> response[1])
                 @@ ("analysis" :> get_full_analysis(request_input, response[1]))
            ELSE with_data
    IN get_clean_message(with_response)

\* MonitoredOpenAI._get_logging_message that records the caller's keyword
\* arguments without removing the MONA_ ones.
MonitoredOpenAI_get_logging_message_unfiltered(kwargs_param, start_time, is_exception, is_async, stream_start_time, response, t) ==
    get_logging_message(kwargs_param, start_time, is_exception, is_async,
                        stream_start_time, response,
                        get(kwargs_param, ADDITIONAL_DATA_ARG_NAME, EMPTY_DICT), t)

\* MonitoredOpenAI._get_logging_message that does not read the caller's
\* MONA_additional_data.
MonitoredOpenAI_get_logging_message_without_data(kwargs_param, start_time, is_exception, is_async, stream_start_time, response, t) ==
    get_logging_message(without_mona_args(kwargs_param), start_time,
                        is_exception, is_async, stream_start_time, response,
                        EMPTY_DICT, t)

\* MonitoredOpenAI._get_logging_message
MonitoredOpenAI_get_logging_message(kwargs_param, start_time, is_exception, is_async, stream_start_time, response, t) ==
    LET request_input == without_mona_args(kwargs_param)
        additional_data == get(kwargs_param, ADDITIONAL_DATA_ARG_NAME, EMPTY_DICT)
    IN get_logging_message(request_input, start_time, is_exception, is_async,
                           stream_start_time, response, additional_data, t)

----------------------------------------------------------------------------
\* State.

NoCall ==
    [pc |-> "idle", entry |-> "none", ctx |-> "none", kwargs |-> EMPTY_DICT,
     attempt |-> 0, tried |-> <<>>, is_stream |-> FALSE, is_async |-> FALSE,
     start_time |-> None, response |-> None, stream_start_time |-> None,
     exc |-> None, is_exception |-> FALSE, forwarded |-> <<>>, draws |-> <<>>,
     coro |-> None, outcome |-> None, gather_start_time |-> None,
     chunks |-> <<>>, source |-> <<>>, delivered |-> <<>>, callbacks |-> 0,
     iter |-> "none"]

\* The values time.time() can return next.
Ticks == {t \in now..(now + 1) : t <= MaxTime}

\* iscoroutinefunction of the functions a call uses: acreate and logger.alog
\* are coroutine functions, create and logger.log are not.
iscoroutinefunction(cr) == cr.entry = "acreate"

\* The REST request before log_request.
NoRequest ==
    [pc |-> "idle", message_logging_function |-> "none",
     request_dict |-> EMPTY_DICT, additional_data |-> EMPTY_DICT,
     context_id |-> None, export_timestamp |-> None, start_time |-> None,
     invocations |-> 0]

Init ==
    /\ wrapper = "none"
    /\ started = FALSE
    /\ rest = NoRequest
    /\ workload \in Workloads
    /\ specs \in SpecsOf(workload)
    /\ nest_applied = FALSE
    /\ now = 0
    /\ thread = 0
    /\ call = [c \in Calls |-> NoCall]
    /\ logged = <<>>

----------------------------------------------------------------------------
\* Construction.

\* validate_and_get_sampling_ratio: the ratio of the specs when it lies in
\* [0, 1] (0..2 in halves), None for the configuration error it raises.
validate_and_get_sampling_ratio(specs_param) ==
    IF specs_param.sampling_ratio >= 0 /\ specs_param.sampling_ratio <= 2
    THEN Some(specs_param.sampling_ratio)
    ELSE None

\* monitor_with_logger that does not validate the specs.
monitor_with_logger_unvalidated ==
    /\ wrapper = "none"
    /\ workload \in {"one_call", "two_calls"}
    /\ wrapper' = "MonitoredOpenAI"
    /\ started' = TRUE
    /\ UNCHANGED <<rest, workload, specs, nest_applied, now, thread, call, logged>>

\* monitor_with_logger (lines 144-152): the validation, then
\* logger.start_monitoring, then the class.
monitor_with_logger ==
    /\ wrapper = "none"
    /\ workload \in {"one_call", "two_calls"}
    /\ IF validate_and_get_sampling_ratio(specs) = None
       THEN /\ wrapper' = "error"
            /\ started' = started
       ELSE /\ wrapper' = "MonitoredOpenAI"
            /\ started' = TRUE
    /\ UNCHANGED <<rest, workload, specs, nest_applied, now, thread, call, logged>>

\* get_rest_monitor_with_logger (lines 367-373, 498):
\* logger.start_monitoring, then the validation, then the class.
get_rest_monitor_with_logger ==
    /\ wrapper = "none"
    /\ workload = "rest"
    /\ started' = TRUE
    /\ wrapper' = IF validate_and_get_sampling_ratio(specs) = None
                  THEN "error"
                  ELSE "RestClient"
    /\ UNCHANGED <<rest, workload, specs, nest_applied, now, thread, call, logged>>

----------------------------------------------------------------------------
\* The entry points.

\* MonitoredOpenAI.create: the caller calls it from some execution context.
create(c) ==
    /\ wrapper = "MonitoredOpenAI"
    /\ thread = 0
    /\ c \in CallsOf(workload)
    /\ call[c].pc = "idle"
    /\ \E k \in KwargsOf(workload), x \in Contexts :
          call' = [call EXCEPT ![c].pc = "bridge", ![c].entry = "create",
                               ![c].ctx = x, ![c].kwargs = k]
    /\ thread' = c
    /\ UNCHANGED <<wrapper, started, rest, workload, specs, nest_applied, now, logged>>

\* MonitoredOpenAI.acreate: awaited by a coroutine of a running event loop.
acreate(c) ==
    /\ wrapper = "MonitoredOpenAI"
    /\ thread = 0
    /\ c \in CallsOf(workload)
    /\ call[c].pc = "idle"
    /\ \E k \in KwargsOf(workload) :
          call' = [call EXCEPT ![c].pc = "inner_create", ![c].entry = "acreate",
                               ![c].ctx = "running_loop", ![c].kwargs = k]
    /\ thread' = c
    /\ UNCHANGED <<wrapper, started, rest, workload, specs, nest_applied, now, logged>>

\* run_in_an_event_loop up to the start of the coroutine. In a running loop
\* that nest_asyncio has not patched, asyncio.run (line 15) and
\* run_until_complete (line 18) raise RuntimeError before the coroutine is
\* started, and the coroutine starts under line 24.
run_in_an_event_loop_enter(c) ==
    /\ thread = c
    /\ call[c].pc = "bridge"
    /\ IF call[c].ctx = "running_loop" /\ ~nest_applied
       THEN /\ nest_applied' = TRUE
            /\ call' = [call EXCEPT ![c].pc = "inner_create", ![c].attempt = 3,
                                    ![c].tried = <<15, 18, 24>>]
       ELSE /\ nest_applied' = nest_applied
            /\ call' = [call EXCEPT ![c].pc = "inner_create", ![c].attempt = 1,
                                    ![c].tried = <<15>>]
    /\ UNCHANGED <<wrapper, started, rest, workload, specs, now, thread, logged>>

\* The message of the RuntimeError of awaiting a finished coroutine again.
REUSE_ERROR ==
    [kind |-> "RuntimeError", msg |-> "cannot reuse already awaited coroutine"]

\* What run_in_an_event_loop hands back, given the asyncio.run call that
\* ran the coroutine and the coroutine's outcome: a RuntimeError out of
\* line 15 is caught, and lines 18 and 24 run the finished coroutine again.
run_in_an_event_loop_result(attempt, coro) ==
    IF attempt = 1 /\ coro.type = "raise" /\ isRuntimeError(coro.exc[1])
    THEN Raise(REUSE_ERROR)
    ELSE coro

----------------------------------------------------------------------------
\* _inner_create.

\* inner_super_function that forwards the caller's keyword arguments as they are.
inner_super_function_unfiltered(kwargs) == kwargs

\* inner_super_function: the keyword arguments the target is called with.
inner_super_function(kwargs) == without_mona_args(kwargs)

\* Lines 213-258: the locals, start_time = time.time(), and the call of the
\* target through call_non_blocking_sync_or_async, which suspends the
\* coroutine when the target is a coroutine function.
inner_create(c) ==
    /\ thread = c
    /\ call[c].pc = "inner_create"
    /\ \E t \in Ticks :
          /\ now' = t
          /\ call' = [call EXCEPT
                ![c].is_stream = get(call[c].kwargs, STREAM_ARG, FALSE),
                ![c].is_async = (call[c].entry = "acreate"),
                ![c].response = None,
                ![c].stream_start_time = None,
                ![c].start_time = Some(t),
                ![c].forwarded =
                    Append(call[c].forwarded, inner_super_function(call[c].kwargs)),
                ![c].pc = "await_super"]
    /\ thread' = IF iscoroutinefunction(call[c]) THEN 0 ELSE c
    /\ UNCHANGED <<wrapper, started, rest, workload, specs, nest_applied, logged>>

\* The thread a suspended (or blocking) call is resumed from.
resumable(c) == thread = IF iscoroutinefunction(call[c]) THEN 0 ELSE c

\* The bare raise of lines 269 and 310: the caught exception leaves the coroutine.
reraise(cr) == [cr EXCEPT !.pc = "coro_done", !.coro = Some(Raise(cr.exc[1]))]

\* inner_handle_exception that raises before it logs.
inner_handle_exception_raise_first(cr) == reraise(cr)

\* inner_handle_exception that does not read avoid_monitoring_exceptions.
inner_handle_exception_ignores_flag(cr) ==
    [cr EXCEPT !.pc = "log_message", !.is_exception = TRUE]

\* inner_handle_exception (lines 260-262), followed by the raise.
inner_handle_exception(cr) ==
    IF ~specs.avoid_monitoring_exceptions
    THEN [cr EXCEPT !.pc = "log_message", !.is_exception = TRUE]
    ELSE reraise(cr)

\* A non-streaming call that returns the response without log_message(False).
super_returns_without_log(c) ==
    /\ resumable(c)
    /\ call[c].pc = "await_super"
    /\ ~call[c].is_stream
    /\ \E r \in Responses :
          call' = [call EXCEPT ![c].response = Some(r),
                               ![c].coro = Some(Return(r)),
                               ![c].pc = "coro_done"]
    /\ thread' = c
    /\ UNCHANGED <<wrapper, started, rest, workload, specs, nest_applied, now, logged>>

\* The target returns a response to a non-streaming call (line 266); the
\* coroutine goes on to log_message(False) (line 271).
super_returns(c) ==
    /\ resumable(c)
    /\ call[c].pc = "await_super"
    /\ ~call[c].is_stream
    /\ \E r \in Responses :
          call' = [call EXCEPT ![c].response = Some(r),
                               ![c].is_exception = FALSE,
                               ![c].pc = "log_message"]
    /\ thread' = c
    /\ UNCHANGED <<wrapper, started, rest, workload, specs, nest_applied, now, logged>>

\* The target raises (lines 267-269 and 308-310).
super_raises(c) ==
    /\ resumable(c)
    /\ call[c].pc = "await_super"
    /\ \E e \in ExceptionsOf(workload) :
          call' = [call EXCEPT ![c] =
                      inner_handle_exception([call[c] EXCEPT !.exc = Some(e)])]
    /\ thread' = c
    /\ UNCHANGED <<wrapper, started, rest, workload, specs, nest_applied, now, logged>>

\* add_conditional_sampling: the wrapped function runs when the draw of
\* random() is below the sampling ratio.
add_conditional_sampling(draw, ratio) == draw < ratio

\* _inner_log_message that takes the context id from the response whether or
\* not the caller named one.
inner_log_message_args_ignores_context_id(cr, t) ==
    [message |->
        MonitoredOpenAI_get_logging_message(cr.kwargs, cr.start_time[1],
            cr.is_exception, cr.is_async, cr.stream_start_time, cr.response, t),
     context_id |->
        IF cr.response # None /\ truthy(cr.response[1])
        THEN Some(cr.response[1].id)
        ELSE None,
     export_timestamp |-> get(cr.kwargs, EXPORT_TIMESTAMP_ARG_NAME, cr.start_time[1])]

\* _inner_log_message with start_time kept in one place for all calls
\* instead of a local of _inner_create: it reads the start time of the call
\* that started last.
inner_log_message_args_shared_start_time(cr, t) ==
    LET started_calls == {c \in Calls : call[c].start_time # None}
        latest == CHOOSE c \in started_calls :
                     \A d \in started_calls :
                        call[d].start_time[1] <= call[c].start_time[1]
        shared == [cr EXCEPT !.start_time = call[latest].start_time]
    IN [message |->
            MonitoredOpenAI_get_logging_message(shared.kwargs, shared.start_time[1],
                shared.is_exception, shared.is_async, shared.stream_start_time,
                shared.response, t),
        context_id |->
            IF CONTEXT_ID_ARG_NAME \in DOMAIN shared.kwargs
            THEN Some(shared.kwargs[CONTEXT_ID_ARG_NAME])
            ELSE IF shared.response # None /\ truthy(shared.response[1])
                 THEN Some(shared.response[1].id)
                 ELSE None,
        export_timestamp |->
            get(shared.kwargs, EXPORT_TIMESTAMP_ARG_NAME, shared.start_time[1])]

\* The arguments _inner_log_message hands the export function (lines 224-238).
inner_log_message_args(cr, t) ==
    [message |->
        MonitoredOpenAI_get_logging_message(cr.kwargs, cr.start_time[1],
            cr.is_exception, cr.is_async, cr.stream_start_time, cr.response, t),
     context_id |->
        LET default == IF cr.response # None /\ truthy(cr.response[1])
                       THEN Some(cr.response[1].id)
                       ELSE None
        IN IF CONTEXT_ID_ARG_NAME \in DOMAIN cr.kwargs
           THEN Some(cr.kwargs[CONTEXT_ID_ARG_NAME])
           ELSE default,
     export_timestamp |-> get(cr.kwargs, EXPORT_TIMESTAMP_ARG_NAME, cr.start_time[1])]

\* Where a call goes on once log_message has returned: the raise of lines
\* 269/310 after an exception record, the return of line 273 after a
\* success record, the end of _stream_done_callback (line 294) in a stream.
after_log_message(cr) ==
    IF cr.is_exception
    THEN reraise(cr)
    ELSE IF ~cr.is_stream
         THEN [cr EXCEPT !.pc = "coro_done", !.coro = Some(Return(cr.response[1]))]
         ELSE [cr EXCEPT !.pc = "done", !.iter = "exhausted"]

\* The export function raising with line 271 inside the try of line 265: the
\* failure of a success record is handled as an exception of the target.
export_raised_inside_try(cr) ==
    IF ~cr.is_exception /\ ~cr.is_stream
    THEN inner_handle_exception([cr EXCEPT !.exc = Some(LoggerException)])
    ELSE IF cr.is_stream /\ ~cr.is_exception
         THEN [cr EXCEPT !.pc = "done", !.iter = "raised"]
         ELSE [cr EXCEPT !.pc = "coro_done", !.coro = Some(Raise(LoggerException))]

\* Where a call goes when the export function raises: nothing catches it, so
\* it leaves the coroutine, or the iteration that ran the callback.
export_raised(cr) ==
    IF cr.is_stream /\ ~cr.is_exception
    THEN [cr EXCEPT !.pc = "done", !.iter = "raised"]
    ELSE [cr EXCEPT !.pc = "coro_done", !.coro = Some(Raise(LoggerException))]

\* The thread once call c has taken a step to cr.
held(c, cr) == IF cr.pc = "done" THEN 0 ELSE c

\* A streaming call that emits a success record when the stream is
\* established, before any chunk is taken.
super_streams_logs_on_return(c) ==
    /\ resumable(c)
    /\ call[c].pc = "await_super"
    /\ call[c].is_stream
    /\ \E s \in ChunkSeqsOf(workload) :
          call' = [call EXCEPT ![c].chunks = s,
                               ![c].source = s,
                               ![c].iter = "open",
                               ![c].coro = Some(Aggregator),
                               ![c].pc = "coro_done"]
    /\ logged' = Append(logged,
           [call |-> c, status |-> "ok"] @@ inner_log_message_args(call[c], now))
    /\ thread' = c
    /\ UNCHANGED <<wrapper, started, rest, workload, specs, nest_applied, now>>

\* A streaming call that takes the first chunk off the target's sequence
\* before it wraps the sequence.
super_streams_consumes_first(c) ==
    /\ resumable(c)
    /\ call[c].pc = "await_super"
    /\ call[c].is_stream
    /\ \E s \in ChunkSeqsOf(workload) :
          call' = [call EXCEPT ![c].chunks = s,
                               ![c].source = Tail(s),
                               ![c].iter = "open",
                               ![c].coro = Some(Aggregator),
                               ![c].pc = "coro_done"]
    /\ thread' = c
    /\ UNCHANGED <<wrapper, started, rest, workload, specs, nest_applied, now, logged>>

\* The target returns a chunk sequence to a streaming call, which is wrapped
\* in a ResponseGatheringIterator and returned (lines 296-306).
super_streams(c) ==
    /\ resumable(c)
    /\ call[c].pc = "await_super"
    /\ call[c].is_stream
    /\ \E s \in ChunkSeqsOf(workload) :
          call' = [call EXCEPT ![c].chunks = s,
                               ![c].source = s,
                               ![c].iter = "open",
                               ![c].coro = Some(Aggregator),
                               ![c].pc = "coro_done"]
    /\ thread' = c
    /\ UNCHANGED <<wrapper, started, rest, workload, specs, nest_applied, now, logged>>

\* log_message that starts the export and does not wait for it to end.
log_message_fire_and_forget(c) ==
    /\ thread = c
    /\ call[c].pc = "log_message"
    /\ \E d \in RandomDraws :
          /\ call' = [call EXCEPT ![c] =
                after_log_message(
                    [call[c] EXCEPT !.draws =
                        Append(call[c].draws,
                               add_conditional_sampling(d, specs.sampling_ratio))])]
          /\ IF add_conditional_sampling(d, specs.sampling_ratio)
             THEN \E t \in Ticks :
                    /\ now' = t
                    /\ logged' = Append(logged,
                           [call |-> c, status |-> "pending"]
                               @@ inner_log_message_args(call[c], t))
             ELSE UNCHANGED <<now, logged>>
    /\ thread' = held(c, call'[c])
    /\ UNCHANGED <<wrapper, started, rest, workload, specs, nest_applied>>

\* log_message(is_exception): the sampling draw, and when it passes
\* _inner_log_message (lines 221-239), which builds the message and calls
\* logger.log, or calls logger.alog and awaits it.
log_message(c) ==
    /\ thread = c
    /\ call[c].pc = "log_message"
    /\ \E d \in RandomDraws :
          IF add_conditional_sampling(d, specs.sampling_ratio)
          THEN \E t \in Ticks :
                 /\ now' = t
                 /\ logged' = Append(logged,
                        [call |-> c, status |-> "pending"]
                            @@ inner_log_message_args(call[c], t))
                 /\ call' = [call EXCEPT
                        ![c].draws = Append(call[c].draws, TRUE),
                        ![c].pc = "await_export"]
                 /\ thread' = IF iscoroutinefunction(call[c]) THEN 0 ELSE c
          ELSE /\ call' = [call EXCEPT ![c] =
                        after_log_message(
                            [call[c] EXCEPT !.draws = Append(call[c].draws, FALSE)])]
               /\ thread' = held(c, call'[c])
               /\ UNCHANGED <<now, logged>>
    /\ UNCHANGED <<wrapper, started, rest, workload, specs, nest_applied>>

\* The entry of logged that call c is waiting for.
pending(c) ==
    CHOOSE i \in 1..Len(logged) : logged[i].call = c /\ logged[i].status = "pending"

\* The export function returns.
logger_returns(c) ==
    /\ resumable(c)
    /\ call[c].pc = "await_export"
    /\ logged' = [logged EXCEPT ![pending(c)].status = "ok"]
    /\ call' = [call EXCEPT ![c] = after_log_message(call[c])]
    /\ thread' = held(c, call'[c])
    /\ UNCHANGED <<wrapper, started, rest, workload, specs, nest_applied, now>>

\* The export function raises.
logger_raises(c) ==
    /\ resumable(c)
    /\ call[c].pc = "await_export"
    /\ logged' = [logged EXCEPT ![pending(c)].status = "failed"]
    /\ call' = [call EXCEPT ![c] = export_raised(call[c])]
    /\ thread' = held(c, call'[c])
    /\ UNCHANGED <<wrapper, started, rest, workload, specs, nest_applied, now>>

----------------------------------------------------------------------------
\* The way back to the caller.

\* acreate hands the caller what _inner_create returned or raised (line 328).
acreate_returns(c) ==
    /\ thread = c
    /\ call[c].pc = "coro_done"
    /\ call[c].entry = "acreate"
    /\ call' = [call EXCEPT
            ![c].outcome = call[c].coro,
            ![c].pc = IF call[c].coro[1].type = "stream" THEN "iterating" ELSE "done"]
    /\ thread' = 0
    /\ UNCHANGED <<wrapper, started, rest, workload, specs, nest_applied, now, logged>>

\* run_in_an_event_loop whose fallback runs the call body again from its
\* start when asyncio.run raised a RuntimeError out of the body.
run_in_an_event_loop_exit_reruns(c) ==
    /\ thread = c
    /\ call[c].pc = "coro_done"
    /\ call[c].entry = "create"
    /\ IF /\ call[c].attempt = 1
          /\ call[c].coro[1].type = "raise"
          /\ isRuntimeError(call[c].coro[1].exc[1])
       THEN /\ call' = [call EXCEPT ![c].pc = "inner_create", ![c].attempt = 2,
                                    ![c].coro = None]
            /\ thread' = c
       ELSE /\ call' = [call EXCEPT
                  ![c].outcome = call[c].coro,
                  ![c].pc = IF call[c].coro[1].type = "stream"
                            THEN "iterating" ELSE "done"]
            /\ thread' = 0
    /\ UNCHANGED <<wrapper, started, rest, workload, specs, nest_applied, now, logged>>

\* run_in_an_event_loop from the end of the coroutine on, and the return of
\* create (line 318). The fallback of lines 16-24 applies nest_asyncio.
run_in_an_event_loop_exit(c) ==
    /\ thread = c
    /\ call[c].pc = "coro_done"
    /\ call[c].entry = "create"
    /\ LET result == run_in_an_event_loop_result(call[c].attempt, call[c].coro[1])
       IN /\ call' = [call EXCEPT
                ![c].outcome = Some(result),
                ![c].tried = IF result # call[c].coro[1]
                             THEN <<15, 18, 24>>
                             ELSE call[c].tried,
                ![c].pc = IF result.type = "stream" THEN "iterating" ELSE "done"]
          /\ nest_applied' = (nest_applied \/ result # call[c].coro[1])
    /\ thread' = 0
    /\ UNCHANGED <<wrapper, started, rest, workload, specs, now, logged>>

----------------------------------------------------------------------------
\* The ResponseGatheringIterator the caller iterates.

\* The response synthesized from the chunks gathered.
final_response(delivered) ==
    [id |-> delivered[1].id,
     choices |-> [i \in 1..Len(delivered) |-> delivered[i].delta]]

\* The caller takes the next chunk; the first one sets the stream start time.
next_chunk(c) ==
    /\ thread = 0
    /\ call[c].pc = "iterating"
    /\ call[c].source # <<>>
    /\ \E t \in Ticks :
          /\ now' = IF call[c].delivered = <<>> THEN t ELSE now
          /\ call' = [call EXCEPT
                ![c].delivered = Append(call[c].delivered, Head(call[c].source)),
                ![c].source = Tail(call[c].source),
                ![c].gather_start_time =
                    IF call[c].delivered = <<>> THEN Some(t)
                    ELSE call[c].gather_start_time]
    /\ UNCHANGED <<wrapper, started, rest, workload, specs, nest_applied, thread, logged>>

\* _stream_done_callback without the nonlocal declarations of lines 280-281:
\* its assignments do not reach the variables log_message reads.
stream_done_callback_without_nonlocal(cr, final, actual_stream_start_time) ==
    [cr EXCEPT !.is_exception = FALSE, !.pc = "log_message"]

\* _stream_done_callback up to its log_message(False) (lines 277-294).
stream_done_callback(cr, final, actual_stream_start_time) ==
    [cr EXCEPT !.response = Some(("usage" :> get_usage(cr.kwargs, final)) @@ final),
               !.stream_start_time = actual_stream_start_time,
               !.is_exception = FALSE,
               !.pc = "log_message"]

\* The caller asks for a chunk after the last one: the iterator calls the
\* completion callback with the synthesized response.
exhaust(c) ==
    /\ thread = 0
    /\ call[c].pc = "iterating"
    /\ call[c].source = <<>>
    /\ call' = [call EXCEPT ![c] =
            stream_done_callback(
                [call[c] EXCEPT !.callbacks = call[c].callbacks + 1],
                final_response(call[c].delivered),
                call[c].gather_start_time)]
    /\ thread' = c
    /\ UNCHANGED <<wrapper, started, rest, workload, specs, nest_applied, now, logged>>

\* The caller stops iterating without asking for a chunk after the last one.
abandon(c) ==
    /\ thread = 0
    /\ call[c].pc = "iterating"
    /\ call' = [call EXCEPT ![c].pc = "done", ![c].iter = "abandoned"]
    /\ UNCHANGED <<wrapper, started, rest, workload, specs, nest_applied, now, thread, logged>>

----------------------------------------------------------------------------
\* The REST client.

\* RestClient._inner_log_message that measures the latency from the time
\* of the callback instead of the time of log_request.
RestClient_inner_log_message_timed_from_callback(rq, is_exception, more_additional_data, response, t) ==
    [message |->
        get_logging_message(rq.request_dict, t, is_exception, FALSE,
                            None, response,
                            more_additional_data @@ rq.additional_data, t),
     context_id |-> rq.context_id,
     export_timestamp |-> rq.export_timestamp]

\* RestClient._inner_log_message (lines 397-421): the arguments it hands the
\* message logging function; {**additional_data, **more_additional_data}
\* lets the callback's data win.
RestClient_inner_log_message(rq, is_exception, more_additional_data, response, t) ==
    [message |->
        get_logging_message(rq.request_dict, rq.start_time[1], is_exception, FALSE,
                            None, response,
                            more_additional_data @@ rq.additional_data, t),
     context_id |-> rq.context_id,
     export_timestamp |-> rq.export_timestamp]

\* RestClient._inner_log_request (lines 380-446): start_time = time.time()
\* and the two callbacks; nothing is logged.
RestClient_inner_log_request(message_logging_function) ==
    /\ rest.pc = "idle"
    /\ \E rd \in RequestDicts, ad \in RequestData, ids \in RequestIds, t \in Ticks :
          /\ now' = t
          /\ rest' = [pc |-> "callbacks",
                      message_logging_function |-> message_logging_function,
                      request_dict |-> rd, additional_data |-> ad,
                      context_id |-> ids.context_id,
                      export_timestamp |-> ids.export_timestamp,
                      start_time |-> Some(t), invocations |-> 0]
    /\ UNCHANGED <<wrapper, started, workload, specs, nest_applied, thread, call, logged>>

\* RestClient.log_request (lines 448-476)
log_request ==
    /\ wrapper = "RestClient"
    /\ RestClient_inner_log_request("log")

\* RestClient.async_log_request (lines 478-496)
async_log_request ==
    /\ wrapper = "RestClient"
    /\ RestClient_inner_log_request("alog")

\* A callback's log_message (lines 423-425): the sampling draw, and when it
\* passes the call of the message logging function. logger.log returns or
\* raises; logger.alog hands back a coroutine for the caller to await.
RestClient_log_message(is_exception, more_additional_data, response) ==
    /\ rest.invocations < MaxInvocations
    /\ rest' = [rest EXCEPT !.invocations = rest.invocations + 1]
    /\ \E d \in RandomDraws :
          IF add_conditional_sampling(d, specs.sampling_ratio)
          THEN \E t \in Ticks, st \in {"ok", "failed"} :
                 /\ now' = t
                 /\ logged' = Append(logged,
                        [call |-> RestRequest,
                         status |-> IF rest.message_logging_function = "log"
                                    THEN st ELSE "pending",
                         invocation |-> rest.invocations + 1,
                         at |-> t]
                        @@ RestClient_inner_log_message(
                               rest, is_exception, more_additional_data, response, t))
          ELSE UNCHANGED <<now, logged>>
    /\ UNCHANGED <<wrapper, started, workload, specs, nest_applied, thread, call>>

\* The log_response callback (lines 427-441).
log_response ==
    \E r \in Responses, more \in CallbackData :
        /\ rest.pc = "callbacks"
        /\ RestClient_log_message(FALSE, more, Some(r))

\* The log_exception callback (lines 443-444).
log_exception ==
    \E more \in CallbackData :
        /\ rest.pc = "callbacks"
        /\ RestClient_log_message(TRUE, more, None)

\* The caller awaits what a callback of async_log_request handed back:
\* logger.alog returns or raises.
await_alog ==
    \E i \in 1..Len(logged), st \in {"ok", "failed"} :
        /\ logged[i].call = RestRequest
        /\ logged[i].status = "pending"
        /\ logged' = [logged EXCEPT ![i].status = st]
        /\ UNCHANGED <<wrapper, started, rest, workload, specs, nest_applied, now, thread, call>>

----------------------------------------------------------------------------

CallStep ==
    \E c \in Calls :
        \/ create(c)
        \/ acreate(c)
        \/ run_in_an_event_loop_enter(c)
        \/ inner_create(c)
        \/ super_returns(c)
        \/ super_streams(c)
        \/ super_raises(c)
        \/ log_message(c)
        \/ logger_returns(c)
        \/ logger_raises(c)
        \/ acreate_returns(c)
        \/ run_in_an_event_loop_exit(c)
        \/ next_chunk(c)
        \/ exhaust(c)
        \/ abandon(c)

Next ==
    \/ monitor_with_logger
    \/ get_rest_monitor_with_logger
    \/ log_request
    \/ async_log_request
    \/ log_response
    \/ log_exception
    \/ await_alog
    \/ CallStep

Spec == Init /\ [][Next]_vars

----------------------------------------------------------------------------
\* What the properties below speak of.

\* the calls made to the logger for call c
RecordsOf(c) == {i \in 1..Len(logged) : logged[i].call = c}
\* the underlying target raised in call c
Raised(c) == call[c].exc # None
\* create / acreate has handed call c back to its caller
Finished(c) == call[c].outcome # None
\* the logger raised while emitting a record of call c
LoggerFailed(c) == \E i \in RecordsOf(c) : logged[i].status = "failed"
\* a name starts with M, O, N, A, _
HasReservedPrefix(k) ==
    /\ Len(k) >= 5
    /\ k[1] = "M" /\ k[2] = "O" /\ k[3] = "N" /\ k[4] = "A" /\ k[5] = "_"
\* the caller's keyword arguments that are not reserved
Unreserved(kwargs) ==
    [k \in {x \in DOMAIN kwargs : ~HasReservedPrefix(x)} |-> kwargs[k]]
\* what the underlying target handed the coroutine of call c
TargetOutcome(c) ==
    IF Raised(c) THEN Raise(call[c].exc[1])
    ELSE IF call[c].is_stream THEN Aggregator
    ELSE Return(call[c].response[1])
AlwaysSampled == specs.sampling_ratio = 2
NeverSampled == specs.sampling_ratio = 0

\* C1: when the underlying target raises, the exception that reaches the
\* caller of create / acreate is that same exception, kind and message
\* (stated for the calls whose logger did not fail).
C1_SameExceptionReachesCaller ==
    \A c \in Calls :
        (Finished(c) /\ Raised(c) /\ ~LoggerFailed(c))
            => call[c].outcome[1] = Raise(call[c].exc[1])

\* C2: with sampling ratio 1 and exceptions monitored, a call has at most one
\* record at any time, and a call that has ended (a stream: iterated to
\* exhaustion) has exactly one, an exception record iff the target raised.
C2_ExactlyOneRecord ==
    (AlwaysSampled /\ ~specs.avoid_monitoring_exceptions) =>
        \A c \in Calls :
            /\ Cardinality(RecordsOf(c)) <= 1
            /\ (call[c].pc = "done" /\ call[c].iter # "abandoned") =>
                  /\ Cardinality(RecordsOf(c)) = 1
                  /\ \A i \in RecordsOf(c) :
                        logged[i].message["is_exception"] = Raised(c)

C2_Witness ==
    /\ AlwaysSampled /\ ~specs.avoid_monitoring_exceptions
    /\ \E c \in Calls :
          /\ call[c].pc = "done" /\ call[c].iter = "exhausted"
          /\ Cardinality(RecordsOf(c)) = 1

\* C3: a failure of the logger never reaches the caller: the caller still
\* gets what the underlying target returned or raised, and the iteration of
\* a stream does not raise the logger's exception.
C3_LoggerFailureNeverPropagates ==
    \A c \in Calls :
        LoggerFailed(c) =>
            /\ call[c].iter # "raised"
            /\ call[c].coro # None => call[c].coro[1] = TargetOutcome(c)

\* C4: when the target raises and exceptions are monitored, every record of
\* the call is an exception record without response and analysis; by the
\* time the exception leaves _inner_create the sampling draw has been made
\* and, when it passed, the logger has finished with the record; no
\* aggregator is returned and the stream callback does not fire.
C4_ExceptionRecordBeforeReraise ==
    \A c \in Calls :
        (Raised(c) /\ ~specs.avoid_monitoring_exceptions) =>
            /\ \A i \in RecordsOf(c) :
                  /\ logged[i].message["is_exception"] = TRUE
                  /\ "response" \notin DOMAIN logged[i].message
                  /\ "analysis" \notin DOMAIN logged[i].message
            /\ call[c].coro # None =>
                  /\ Len(call[c].draws) = 1
                  /\ call[c].draws[1] <=> RecordsOf(c) # {}
                  /\ \A i \in RecordsOf(c) : logged[i].status # "pending"
                  /\ call[c].coro[1].type = "raise"
            /\ call[c].callbacks = 0
            /\ call[c].iter = "none"

C4_Witness ==
    \E c \in Calls :
        /\ Raised(c) /\ ~specs.avoid_monitoring_exceptions
        /\ call[c].is_stream
        /\ Finished(c) /\ call[c].outcome[1] = Raise(call[c].exc[1])
        /\ \E i \in RecordsOf(c) : logged[i].status = "ok"

UnsampledOutcome(c) ==
    run_in_an_event_loop_result(call[c].attempt, TargetOutcome(c))

\* C6: with sampling ratio 0 nothing is ever emitted, and a call's result or
\* exception is the same with ratio 0 and with ratio 1: in both it is what
\* the call hands back when nothing is emitted.
C6_SamplingLeavesOutcomeAlone ==
    /\ NeverSampled => logged = <<>>
    /\ (NeverSampled \/ AlwaysSampled) =>
          \A c \in Calls :
              Finished(c) => call[c].outcome[1] = UnsampledOutcome(c)

\* C7: no name with the reserved prefix is forwarded to the target or is in
\* the input of a record; every other name the caller passed is, unchanged.
C7_ReservedKeysStripped ==
    \A c \in Calls :
        /\ \A n \in 1..Len(call[c].forwarded) :
              call[c].forwarded[n] = Unreserved(call[c].kwargs)
        /\ \A i \in RecordsOf(c) :
              logged[i].message["input"] = Unreserved(call[c].kwargs)

C7_Witness ==
    \E c \in Calls :
        /\ {MONA_OTHER_ARG, EXPORT_TIMESTAMP_ARG_NAME, LOWER_MONA_ARG}
                \subseteq DOMAIN call[c].kwargs
        /\ Len(call[c].forwarded) = 1
        /\ DOMAIN call[c].forwarded[1] = {PROMPT_ARG, LOWER_MONA_ARG}
        /\ RecordsOf(c) # {}

\* acreate, not streaming, the target returned, and the emission of the
\* success record is pending
EmissionPending(c) ==
    /\ call[c].entry = "acreate" /\ ~call[c].is_stream /\ ~Raised(c)
    /\ \E i \in RecordsOf(c) : logged[i].status = "pending"

C9_EmissionBeforeCreateReturns ==
    \A c \in Calls :
        (call[c].entry = "create" /\ ~call[c].is_stream) =>
            /\ (Finished(c) /\ call[c].outcome[1].type = "return") =>
                  /\ Len(call[c].draws) = 1
                  /\ call[c].draws[1] =>
                        \E i \in RecordsOf(c) :
                            /\ logged[i].status = "ok"
                            /\ ~logged[i].message["is_exception"]
            /\ (\E i \in RecordsOf(c) : logged[i].status = "pending") => thread = c

C9_Witness ==
    \E c \in Calls :
        /\ call[c].entry = "create" /\ ~call[c].is_stream
        /\ call[c].ctx = "running_loop"
        /\ Finished(c) /\ call[c].outcome[1].type = "return"
        /\ call[c].outcome[1].value = call[c].response
        /\ \E i \in RecordsOf(c) : logged[i].status = "ok"

\* C10: the record of a successful non-streaming call has is_exception
\* false, the caller's unreserved keyword arguments as input, the target's
\* response as response and the analysis of that input and response.
C10_SuccessRecord ==
    \A c \in Calls :
        (~call[c].is_stream /\ ~Raised(c)) =>
            \A i \in RecordsOf(c) :
                LET m == logged[i].message
                IN /\ m["is_exception"] = FALSE
                   /\ m["input"] = Unreserved(call[c].kwargs)
                   /\ "response" \in DOMAIN m
                   /\ m["response"] = call[c].response[1]
                   /\ m["response"] \in Responses
                   /\ "analysis" \in DOMAIN m
                   /\ m["analysis"] =
                        [of_input |-> Unreserved(call[c].kwargs),
                         of_response |-> call[c].response[1]]

C10_Witness ==
    \E c \in Calls :
        /\ ~call[c].is_stream /\ ~Raised(c)
        /\ CONTEXT_ID_ARG_NAME \in DOMAIN call[c].kwargs
        /\ \E i \in RecordsOf(c) :
              /\ logged[i].status = "ok"
              /\ logged[i].message["response"] = [id |-> "r2", choices |-> <<"yo">>]

\* the response the iterator synthesizes from the chunks the target streamed
Synthesized(c) ==
    [id |-> call[c].chunks[1].id,
     choices |-> [n \in 1..Len(call[c].chunks) |-> call[c].chunks[n].delta]]

\* C11: in a streaming call the completion callback runs at most once, and
\* once when the iteration has reached the end, only with every chunk
\* delivered; no record exists before that; the record is a success record
\* with the synthesized response extended with usage, and with the stream
\* start latency of the time of the first chunk.
C11_CallbackOnceAtExhaustion ==
    \A c \in Calls :
        (call[c].is_stream /\ ~Raised(c)) =>
            /\ call[c].callbacks <= 1
            /\ call[c].callbacks = 1 =>
                  (call[c].source = <<>> /\ call[c].delivered = call[c].chunks)
            /\ call[c].iter \in {"exhausted", "raised"} => call[c].callbacks = 1
            /\ RecordsOf(c) # {} => call[c].callbacks = 1
            /\ \A i \in RecordsOf(c) :
                  LET m == logged[i].message
                  IN /\ m["is_exception"] = FALSE
                     /\ "response" \in DOMAIN m
                     /\ DOMAIN m["response"] = {"id", "choices", "usage"}
                     /\ m["response"].id = Synthesized(c).id
                     /\ m["response"].choices = Synthesized(c).choices
                     /\ m["response"].usage = get_usage(call[c].kwargs, Synthesized(c))
                     /\ m["stream_start_latency"] =
                          Some(call[c].gather_start_time[1] - call[c].start_time[1])

C11_Witness ==
    \E c \in Calls :
        /\ call[c].is_stream /\ call[c].iter = "exhausted"
        /\ Len(call[c].chunks) = 2
        /\ \E i \in RecordsOf(c) :
              /\ logged[i].status = "ok"
              /\ logged[i].message["response"].choices = <<"a", "b">>
              /\ logged[i].message["stream_start_latency"] = <<1>>

\* C12: the chunks the caller has taken from the aggregator, followed by
\* the chunks it has not taken yet, are the chunk sequence of the target;
\* at the end of the iteration the caller has taken that sequence.
C12_ChunksPassThrough ==
    \A c \in Calls :
        call[c].is_stream =>
            /\ call[c].delivered \o call[c].source = call[c].chunks
            /\ call[c].iter \in {"exhausted", "raised"} =>
                  call[c].delivered = call[c].chunks

C12_Witness ==
    \E c \in Calls :
        /\ call[c].iter = "exhausted"
        /\ Len(call[c].delivered) = 2
        /\ call[c].delivered[1].delta # call[c].delivered[2].delta
        /\ call[c].delivered = call[c].chunks

\* C13: a stream the caller stopped iterating has had no completion
\* callback and has no record, of success or of exception.
C13_AbandonedStreamHasNoRecord ==
    \A c \in Calls :
        call[c].iter = "abandoned" =>
            /\ call[c].callbacks = 0
            /\ RecordsOf(c) = {}
            /\ call[c].pc = "done"

C13_Witness ==
    \E c \in Calls :
        /\ AlwaysSampled
        /\ call[c].iter = "abandoned"
        /\ call[c].delivered # <<>> /\ call[c].source # <<>>

\* record i is the success record of a streaming create / acreate call
StreamedSuccess(i) ==
    /\ logged[i].call \in Calls
    /\ call[logged[i].call].is_stream
    /\ ~logged[i].message["is_exception"]

PlainContextResult(coro) == run_in_an_event_loop_result(1, coro)

\* C15: what create hands back when it is called with an event loop running
\* is what it hands back, for the same outcome of the call body, when it
\* is called with no event loop.
C15_SameResultInRunningLoop ==
    \A c \in Calls :
        (call[c].entry = "create" /\ Finished(c)) =>
            /\ call[c].ctx = "no_loop" =>
                  call[c].outcome[1] = PlainContextResult(call[c].coro[1])
            /\ call[c].ctx = "running_loop" =>
                  call[c].outcome[1] = PlainContextResult(call[c].coro[1])

\* call c has gone past the call of the underlying target
TargetCalled(c) == call[c].pc \notin {"idle", "bridge", "inner_create"}

\* C16: the underlying target is called at most once in a call, and once
\* in a call that has gone past line 247-258, whatever the target did and
\* whichever asyncio.run of the bridge ran the call body.
C16_TargetInvokedOnce ==
    \A c \in Calls :
        /\ Len(call[c].forwarded) <= 1
        /\ TargetCalled(c) => Len(call[c].forwarded) = 1

C16_Witness ==
    \E c \in Calls :
        /\ call[c].entry = "create" /\ call[c].attempt = 1
        /\ Finished(c) /\ Raised(c) /\ isRuntimeError(call[c].exc[1])
        /\ call[c].outcome[1] = Raise(REUSE_ERROR)
        /\ Len(call[c].forwarded) = 1

\* the caller of call c named a value for the reserved argument k
Supplied(c, k) == k \in DOMAIN call[c].kwargs

\* C17: the context id that goes to the logger with a record is the
\* caller's MONA_context_id when the caller named one, otherwise the id of
\* the response in a success record and none in an exception record; the
\* export timestamp is the caller's MONA_export_timestamp when the caller
\* named one, otherwise the start time of the call; a call whose target
\* and logger did not fail hands the target's result back, with a
\* MONA_context_id as without.
C17_ContextIdAndTimestamp ==
    \A c \in Calls :
        /\ \A i \in RecordsOf(c) :
              LET m == logged[i].message
              IN /\ logged[i].context_id =
                        IF Supplied(c, CONTEXT_ID_ARG_NAME)
                        THEN Some(call[c].kwargs[CONTEXT_ID_ARG_NAME])
                        ELSE IF m["is_exception"]
                             THEN None
                             ELSE Some(m["response"].id)
                 /\ logged[i].export_timestamp =
                        IF Supplied(c, EXPORT_TIMESTAMP_ARG_NAME)
                        THEN call[c].kwargs[EXPORT_TIMESTAMP_ARG_NAME]
                        ELSE call[c].start_time[1]
        /\ (Finished(c) /\ ~Raised(c) /\ ~LoggerFailed(c)) =>
              /\ call[c].outcome[1] = TargetOutcome(c)
              /\ call[c].outcome[1].type \in {"return", "stream"}

C17_Witness ==
    \E c \in Calls : \E i \in RecordsOf(c) :
        /\ logged[i].context_id = <<"ctx1">>
        /\ ~logged[i].message["is_exception"]
        /\ logged[i].message["response"].id = "r2"
        /\ logged[i].export_timestamp = call[c].start_time[1]
        /\ call[c].outcome = Some(Return(logged[i].message["response"]))

C17_WitnessDefaultId ==
    \E c \in Calls : \E i \in RecordsOf(c) :
        /\ logged[i].export_timestamp = 7
        /\ logged[i].context_id = <<"r2">>
        /\ ~Supplied(c, CONTEXT_ID_ARG_NAME)

C17_WitnessException ==
    \E c \in Calls : \E i \in RecordsOf(c) :
        /\ logged[i].message["is_exception"]
        /\ logged[i].context_id = None
        /\ logged[i].export_timestamp = call[c].start_time[1]

\* the underlying target of call c was not handed MONA_additional_data
DataNotForwarded(c) ==
    \A n \in 1..Len(call[c].forwarded) :
        ADDITIONAL_DATA_ARG_NAME \notin DOMAIN call[c].forwarded[n]

\* C18 as stated: every record of a call whose caller supplied
\* MONA_additional_data has an additional_data field that is the supplied
\* mapping, and the target is not handed the argument.
C18_AdditionalDataVerbatim ==
    \A c \in Calls :
        Supplied(c, ADDITIONAL_DATA_ARG_NAME) =>
            /\ DataNotForwarded(c)
            /\ \A i \in RecordsOf(c) :
                  /\ "additional_data" \in DOMAIN logged[i].message
                  /\ logged[i].message["additional_data"] =
                        call[c].kwargs[ADDITIONAL_DATA_ARG_NAME]

\* C18: every record, of success or of exception, of a call whose caller
\* supplied a MONA_additional_data mapping that is not empty has an
\* additional_data field that is the supplied mapping; a record of a call
\* whose caller supplied an empty mapping, or none, has no additional_data
\* field; the target is never handed the argument.
C18_NonEmptyAdditionalDataVerbatim ==
    \A c \in Calls :
        /\ DataNotForwarded(c)
        /\ \A i \in RecordsOf(c) :
              IF /\ Supplied(c, ADDITIONAL_DATA_ARG_NAME)
                 /\ call[c].kwargs[ADDITIONAL_DATA_ARG_NAME] # EMPTY_DICT
              THEN /\ "additional_data" \in DOMAIN logged[i].message
                   /\ logged[i].message["additional_data"] =
                         call[c].kwargs[ADDITIONAL_DATA_ARG_NAME]
              ELSE "additional_data" \notin DOMAIN logged[i].message

C18_Witness ==
    \E c \in Calls :
        /\ Len(call[c].forwarded) = 1
        /\ \E i \in RecordsOf(c) :
              /\ logged[i].message["is_exception"]
              /\ "additional_data" \in DOMAIN logged[i].message
              /\ logged[i].message["additional_data"] = [customer_id |-> "A531251"]

C18_WitnessEmptyMapping ==
    \E c \in Calls :
        /\ Supplied(c, ADDITIONAL_DATA_ARG_NAME)
        /\ call[c].kwargs[ADDITIONAL_DATA_ARG_NAME] = EMPTY_DICT
        /\ \E i \in RecordsOf(c) : "additional_data" \notin DOMAIN logged[i].message

\* the sampling ratio of the specs lies outside [0, 1]
RatioOutOfRange == specs.sampling_ratio < 0 \/ specs.sampling_ratio > 2

\* C19: with a sampling ratio outside [0, 1] neither constructor hands a
\* class back: no create or acreate call and no REST request is ever
\* started, and nothing reaches the logger.
C19_InvalidRatioFailsConstruction ==
    RatioOutOfRange =>
        /\ wrapper \in {"none", "error"}
        /\ \A c \in Calls : call[c].pc = "idle"
        /\ rest.pc = "idle"
        /\ logged = <<>>

C19_Witness ==
    /\ workload = "one_call"
    /\ specs.sampling_ratio = 3
    /\ wrapper = "error"

C19_WitnessRest ==
    /\ workload = "rest"
    /\ specs.sampling_ratio = -1
    /\ wrapper = "error"
    /\ started

\* the records of the REST request
RestRecords == {i \in 1..Len(logged) : logged[i].call = RestRequest}

\* C20: after log_request or async_log_request and before a callback is
\* invoked the logger has received nothing; an invocation of a callback
\* accounts for at most one record; the latency of a record is the time
\* from log_request to the invocation that emitted it.
C20_RestRecordsOnlyFromCallbacks ==
    /\ rest.invocations = 0 => RestRecords = {}
    /\ Cardinality(RestRecords) <= rest.invocations
    /\ \A i \in RestRecords :
          /\ logged[i].invocation \in 1..rest.invocations
          /\ \A j \in RestRecords :
                logged[j].invocation = logged[i].invocation => j = i
          /\ logged[i].message["latency"] = logged[i].at - rest.start_time[1]
          /\ logged[i].message["latency"] >= 0

C20_Witness ==
    /\ rest.start_time = <<1>>
    /\ rest.invocations = 2
    /\ \E i \in RestRecords :
          /\ logged[i].invocation = 2
          /\ logged[i].message["is_exception"]
          /\ logged[i].message["latency"] = 1
    /\ \E i \in RestRecords :
          /\ logged[i].invocation = 1
          /\ ~logged[i].message["is_exception"]
          /\ logged[i].message["latency"] = 0

C20_WitnessNothingYet ==
    /\ rest.pc = "callbacks"
    /\ rest.invocations = 0
    /\ AlwaysSampled
    /\ logged = <<>>

\* call c is a create call whose call body run_in_an_event_loop has started
Bridged(c) == call[c].entry = "create" /\ call[c].attempt # 0

\* (a), (b), (c): the call of async_util.py that runs the call body is
\* asyncio.run (line 15) with no event loop, run_until_complete of the
\* existing loop (line 18) with an idle one, and with a running one the
\* body runs nested, nest_asyncio applied.
ResolvedByLoopState(c) ==
    /\ call[c].ctx = "no_loop" => call[c].attempt = 1
    /\ call[c].ctx = "idle_loop" => call[c].attempt = 2
    /\ call[c].ctx = "running_loop" => nest_applied

\* the except clauses of lines 16 and 19 are entered only with an event
\* loop running
FallbackOnlyByLoopState(c) ==
    Len(call[c].tried) > 1 => call[c].ctx = "running_loop"

\* C21: run_in_an_event_loop runs the call body under asyncio.run when no
\* event loop exists, on the existing loop when one exists and is idle,
\* nested with nest_asyncio applied when one is running; and it goes to
\* its fallback calls only for the state of the event loop, never for an
\* exception of the call body.
C21_ResolutionOrder ==
    \A c \in Calls :
        Bridged(c) => (ResolvedByLoopState(c) /\ FallbackOnlyByLoopState(c))

\* record i of call c is built from what call c itself was given and got:
\* the input the target of c was called with, the response the caller of c
\* was handed (for a stream, the chunks it took), the start time of c and
\* the time of the first chunk of c.
OwnRecord(c, i) ==
    LET m == logged[i].message
    IN /\ m["input"] = call[c].forwarded[1]
       /\ m["input"] = Unreserved(call[c].kwargs)
       /\ m["is_async"] = (call[c].entry = "acreate")
       /\ ~Supplied(c, EXPORT_TIMESTAMP_ARG_NAME) =>
             logged[i].export_timestamp = call[c].start_time[1]
       /\ m["is_exception"] => "response" \notin DOMAIN m
       /\ (~m["is_exception"] /\ ~call[c].is_stream) =>
             /\ m["response"] = call[c].response[1]
             /\ m["stream_start_latency"] = None
             /\ (Finished(c) /\ call[c].outcome[1].type = "return") =>
                   m["response"] = call[c].outcome[1].value[1]
       /\ (~m["is_exception"] /\ call[c].is_stream) =>
             /\ m["response"].id = call[c].delivered[1].id
             /\ m["response"].choices =
                   [n \in 1..Len(call[c].delivered) |-> call[c].delivered[n].delta]
             /\ m["stream_start_latency"] =
                   Some(call[c].gather_start_time[1] - call[c].start_time[1])

\* C22: whatever the interleaving of the calls, every record of a call is
\* built from the input, response, start time and stream start time of
\* that call, and a call that returns a response returns the response its
\* own target call returned.
C22_RecordsOfOwnCall ==
    \A c \in Calls :
        /\ \A i \in RecordsOf(c) : OwnRecord(c, i)
        /\ (Finished(c) /\ call[c].outcome[1].type = "return") =>
              call[c].outcome[1].value = call[c].response

\* two acreate calls in flight together, with different arguments, start
\* times and results: the first to start is the last to emit
C22_Witness ==
    /\ call[1].entry = "acreate" /\ call[2].entry = "acreate"
    /\ call[1].start_time = <<0>> /\ call[2].start_time = <<1>>
    /\ ~call[1].is_stream /\ call[2].is_stream
    /\ Finished(1) /\ call[1].outcome[1].type = "return"
    /\ call[2].iter = "exhausted"
    /\ Len(logged) = 2
    /\ logged[1].call = 2 /\ logged[2].call = 1
    /\ logged[1].status = "ok" /\ logged[2].status = "ok"
    /\ logged[1].context_id = <<"ctx2">> /\ logged[2].context_id = <<"ctx1">>
    /\ logged[1].export_timestamp = 1 /\ logged[2].export_timestamp = 0

====
